---- MODULE Spec2Model ----
(***************************************************************************)
(* Listic Fundraiser, M-Pesa STK push backend (server.js).                 *)
(*                                                                         *)
(* The model covers the three HTTP handlers that share paymentStore:       *)
(*   POST /api/stk-push        (async: suspends on the token call and on   *)
(*                              the gateway submission)                    *)
(*   POST /api/mpesa/callback  (synchronous)                               *)
(*   GET  /api/stk-status      (synchronous)                               *)
(* Node runs one handler continuation at a time, so every action below is  *)
(* one run-to-completion segment of a handler.                             *)
(***************************************************************************)
EXTENDS Integers, Sequences, FiniteSets, TLC

(***************************************************************************)
(* Bounds of the model.                                                    *)
(***************************************************************************)
\* number of POST /api/stk-push requests that may be in progress together
MaxInits == 2
\* number of CheckoutRequestIDs the gateway can issue
NumIds == 2
\* longest CallbackMetadata.Item array that is enumerated
MaxItems == 2
\* largest whole part of the amounts enumerated for the payload's Amount
MaxWhole == 2

Procs == 1..MaxInits

Ids == {"ws_" \o ToString(i) : i \in 1..NumIds}

(***************************************************************************)
(* JavaScript values.  A number is n + f/10 with n its floor, so that      *)
(* 10.4 is Num(10, 4); NaN is a number too.                                *)
(***************************************************************************)
Undef == [t |-> "undefined", n |-> 0, f |-> 0, s |-> ""]

Null == [t |-> "null", n |-> 0, f |-> 0, s |-> ""]

Num(n, f) == [t |-> "number", n |-> n, f |-> f, s |-> ""]

JsInt(n) == Num(n, 0)

NaN == [t |-> "number", n |-> 0, f |-> 0, s |-> "NaN"]

Str(s) == [t |-> "string", n |-> 0, f |-> 0, s |-> s]

Arr(items) == [t |-> "array", items |-> items]

Nullish(v) == v.t \in {"undefined", "null"}

\* ToBoolean, as used by `!x` and `||`
Truthy(v) ==
    CASE v.t = "undefined" -> FALSE
      [] v.t = "null" -> FALSE
      [] v.t = "number" -> v.s # "NaN" /\ (v.n # 0 \/ v.f # 0)
      [] v.t = "string" -> v.s # ""
      [] OTHER -> TRUE

\* o.name / destructuring of `name` from o, for a non-nullish o
Prop(o, name) ==
    IF o.t = "object" /\ name \in DOMAIN o THEN o[name] ELSE Undef

\* o?.name
OptProp(o, name) == IF Nullish(o) THEN Undef ELSE Prop(o, name)

\* the string a value becomes when it is used as a property key
ToKey(v) ==
    CASE v.t = "string" -> v.s
      [] v.t = "undefined" -> "undefined"
      [] v.t = "null" -> "null"
      [] v.t = "number" -> IF v.s = "NaN" THEN "NaN" ELSE ToString(v.n)
      [] OTHER -> "[object Object]"

\* MathCeil, had the amount been rounded to the nearest integer
MathCeil_Round(v) ==
    IF v.t = "number"
    THEN IF v.s = "NaN" THEN NaN ELSE JsInt(IF v.f < 5 THEN v.n ELSE v.n + 1)
    ELSE NaN

\* Math.ceil on a number
MathCeil(v) ==
    IF v.t = "number"
    THEN IF v.s = "NaN" THEN NaN ELSE JsInt(IF v.f = 0 THEN v.n ELSE v.n + 1)
    ELSE NaN

(***************************************************************************)
(* paymentStore is a JavaScript object used as a map: a function whose     *)
(* domain is the set of keys written so far.                               *)
(***************************************************************************)
EmptyObject == [k \in {} |-> Undef]

\* Put, had the value been merged into the one already there
Put_Merge(obj, key, value) ==
    [k \in DOMAIN obj \cup {key} |->
        IF k # key THEN obj[k]
        ELSE IF key \in DOMAIN obj
        THEN [f \in DOMAIN obj[key] \cup DOMAIN value |->
                IF f \in DOMAIN value THEN value[f] ELSE obj[key][f]]
        ELSE value]

\* Put, had the object been replaced by one holding only the new property
Put_Replace(obj, key, value) == [k \in {key} |-> value]

\* obj[key] = value
Put(obj, key, value) ==
    [k \in DOMAIN obj \cup {key} |-> IF k = key THEN value ELSE obj[k]]

\* the properties every object inherits from Object.prototype
ObjectPrototypeKeys ==
    {"constructor", "toString", "valueOf", "hasOwnProperty", "__proto__"}

\* the value of an inherited property: Object.prototype itself for
\* `__proto__`, a function for the others
Inherited(key) ==
    IF key = "__proto__" THEN [t |-> "object"] ELSE [t |-> "function", name |-> key]

\* obj[key]: the own property, else the inherited one, else undefined
Get(obj, key) ==
    IF key \in DOMAIN obj THEN obj[key]
    ELSE IF key \in ObjectPrototypeKeys THEN Inherited(key)
    ELSE Undef

\* PendingRecord, had the Initiator written another status
PendingRecord_Initiated == [t |-> "object", status |-> Str("initiated")]

\* the record the Initiator writes
PendingRecord == [t |-> "object", status |-> Str("pending")]

\* what res.json sends for a value: JSON.stringify drops the properties whose
\* value is undefined, and gives undefined (an empty body) for a function
Json(v) ==
    IF v.t = "object"
    THEN [k \in {j \in DOMAIN v : j = "t" \/ v[j] # Undef} |-> v[k]]
    ELSE IF v.t = "function" THEN Undef
    ELSE v

Response(code, body) == [code |-> code, body |-> body]

(***************************************************************************)
(* State.                                                                  *)
(***************************************************************************)
VARIABLES
    paymentStore,   \* the in-memory store, keyed by CheckoutRequestID
    pc,             \* where each stk-push request stands
    req,            \* req.body of each stk-push request
    res,            \* the response each stk-push request was given
    tokenCalls,     \* number of getAccessToken calls each request made
    gatewayCalls,   \* the payloads each request posted to the gateway
    gateway,        \* what the gateway answers to each request's submission
    reconciled,     \* keys the callback handler has written a record under
    last            \* the handler segment that ran last, with its request
                    \* and response and, for a callback, the value its write
                    \* replaced

vars == <<paymentStore, pc, req, res, tokenCalls, gatewayCalls, gateway,
          reconciled, last>>

NoResponse == [code |-> 0]

NoAnswer == [ok |-> FALSE, sent |-> FALSE]

Init ==
    /\ paymentStore = EmptyObject
    /\ pc = [p \in Procs |-> "idle"]
    /\ req = [p \in Procs |-> Undef]
    /\ res = [p \in Procs |-> NoResponse]
    /\ tokenCalls = [p \in Procs |-> 0]
    /\ gatewayCalls = [p \in Procs |-> <<>>]
    /\ gateway = [p \in Procs |-> NoAnswer]
    /\ reconciled = {}
    /\ last = [op |-> "listen"]

(***************************************************************************)
(* POST /api/stk-push                                                      *)
(***************************************************************************)
Phones == {Undef, Str("254700000000")}

Amounts == {Undef, Num(10, 4)}

StkPushBodies == {[t |-> "object", phone |-> ph, amount |-> am] :
                    ph \in Phones, am \in Amounts}

\* the amounts tried for the payload's Amount: absent, the 10.4 of the
\* documentation, and whole and fractional amounts around zero, below zero
\* included since the handler checks no range
AllAmounts ==
    {Undef, Num(10, 4)}
    \cup {Num(n, f) : n \in -1..MaxWhole, f \in {0, 1, 5, 9}}

AllStkPushBodies == {[t |-> "object", phone |-> ph, amount |-> am] :
                       ph \in Phones, am \in AllAmounts}

\* StkPushStart, had the validation been `!phone && !amount`
StkPushStart_And(p, body) ==
    /\ pc[p] = "idle"
    /\ req' = [req EXCEPT ![p] = body]
    /\ IF ~Truthy(Prop(body, "phone")) /\ ~Truthy(Prop(body, "amount"))
       THEN /\ res' = [res EXCEPT ![p] = Response(400,
                        [errorMessage |-> "phone and amount are required"])]
            /\ pc' = [pc EXCEPT ![p] = "done"]
            /\ UNCHANGED tokenCalls
       ELSE /\ tokenCalls' = [tokenCalls EXCEPT ![p] = @ + 1]
            /\ pc' = [pc EXCEPT ![p] = "token"]
            /\ UNCHANGED res
    /\ last' = [op |-> "stk-push", p |-> p]
    /\ UNCHANGED <<paymentStore, gatewayCalls, gateway, reconciled>>

\* the handler up to its first await: validation, then the token request
StkPushStart(p, body) ==
    /\ pc[p] = "idle"
    /\ req' = [req EXCEPT ![p] = body]
    /\ IF ~Truthy(Prop(body, "phone")) \/ ~Truthy(Prop(body, "amount"))
       THEN /\ res' = [res EXCEPT ![p] = Response(400,
                        [errorMessage |-> "phone and amount are required"])]
            /\ pc' = [pc EXCEPT ![p] = "done"]
            /\ UNCHANGED tokenCalls
       ELSE /\ tokenCalls' = [tokenCalls EXCEPT ![p] = @ + 1]
            /\ pc' = [pc EXCEPT ![p] = "token"]
            /\ UNCHANGED res
    /\ last' = [op |-> "stk-push", p |-> p]
    /\ UNCHANGED <<paymentStore, gatewayCalls, gateway, reconciled>>

\* the fields of the payload that come from the request; the shortcode,
\* password, timestamp and callback URL come from the environment
Payload(body) ==
    [Amount |-> MathCeil(Prop(body, "amount")),
     PartyA |-> Prop(body, "phone"),
     PhoneNumber |-> Prop(body, "phone"),
     TransactionType |-> "CustomerBuyGoodsOnline",
     AccountReference |-> "DominicOyagi"]

\* the answer of the catch block, with its fallback message
ServerError == Response(500, [errorMessage |-> "STK push failed. Please try again."])

\* ids the gateway has already put in an acknowledgment
Issued == {ToKey(Prop(gateway[q].data, "CheckoutRequestID")) :
             q \in {r \in Procs : gateway[r].ok}}

\* the gateway's answers to a submission: a failure (rejection, timeout), an
\* acknowledgment without CheckoutRequestID, or one with a fresh id
GatewayAnswers ==
    {[ok |-> FALSE, sent |-> TRUE]}
    \cup {[ok |-> TRUE, sent |-> TRUE,
           data |-> [t |-> "object", ResponseCode |-> Str("1")]]}
    \cup {[ok |-> TRUE, sent |-> TRUE,
           data |-> [t |-> "object", ResponseCode |-> Str("0"),
                     CheckoutRequestID |-> Str(i)]] : i \in Ids \ Issued}

\* getAccessToken() resolved: the payload is built and posted; the gateway
\* receives it and decides its answer, which is then in flight
TokenOk(p) ==
    /\ pc[p] = "token"
    /\ gatewayCalls' = [gatewayCalls EXCEPT ![p] = Append(@, Payload(req[p]))]
    /\ \E a \in GatewayAnswers : gateway' = [gateway EXCEPT ![p] = a]
    /\ pc' = [pc EXCEPT ![p] = "gateway"]
    /\ last' = [op |-> "stk-push", p |-> p]
    /\ UNCHANGED <<paymentStore, req, res, tokenCalls, reconciled>>

\* TokenFail, had the catch block ended without answering
TokenFail_Silent(p) ==
    /\ pc[p] = "token"
    /\ pc' = [pc EXCEPT ![p] = "done"]
    /\ last' = [op |-> "stk-push", p |-> p]
    /\ UNCHANGED <<paymentStore, req, res, tokenCalls, gatewayCalls, gateway,
                   reconciled>>

\* getAccessToken() rejected: the catch block answers 500
TokenFail(p) ==
    /\ pc[p] = "token"
    /\ res' = [res EXCEPT ![p] = ServerError]
    /\ pc' = [pc EXCEPT ![p] = "done"]
    /\ last' = [op |-> "stk-push", p |-> p]
    /\ UNCHANGED <<paymentStore, req, tokenCalls, gatewayCalls, gateway,
                   reconciled>>

\* GatewayOk, had the pending record been written without testing for the id
GatewayOk_Always(p) ==
    /\ pc[p] = "gateway"
    /\ gateway[p].ok
    /\ LET data == gateway[p].data
           id == Prop(data, "CheckoutRequestID")
       IN /\ paymentStore' = Put(paymentStore, ToKey(id), PendingRecord)
          /\ res' = [res EXCEPT ![p] = Response(200, Json(data))]
    /\ pc' = [pc EXCEPT ![p] = "done"]
    /\ last' = [op |-> "stk-push", p |-> p]
    /\ UNCHANGED <<req, tokenCalls, gatewayCalls, gateway, reconciled>>

\* axios.post resolved with the acknowledgment
GatewayOk(p) ==
    /\ pc[p] = "gateway"
    /\ gateway[p].ok
    /\ LET data == gateway[p].data
           id == Prop(data, "CheckoutRequestID")
       IN /\ paymentStore' = IF Truthy(id)
                             THEN Put(paymentStore, ToKey(id), PendingRecord)
                             ELSE paymentStore
          /\ res' = [res EXCEPT ![p] = Response(200, Json(data))]
    /\ pc' = [pc EXCEPT ![p] = "done"]
    /\ last' = [op |-> "stk-push", p |-> p]
    /\ UNCHANGED <<req, tokenCalls, gatewayCalls, gateway, reconciled>>

\* GatewayFail, had the catch block recorded the failed attempt
GatewayFail_Records(p) ==
    /\ pc[p] = "gateway"
    /\ ~gateway[p].ok
    /\ paymentStore' = Put(paymentStore, "undefined",
                           [t |-> "object", status |-> Str("failed")])
    /\ res' = [res EXCEPT ![p] = ServerError]
    /\ pc' = [pc EXCEPT ![p] = "done"]
    /\ last' = [op |-> "stk-push", p |-> p]
    /\ UNCHANGED <<req, tokenCalls, gatewayCalls, gateway, reconciled>>

\* axios.post rejected: the catch block answers 500
GatewayFail(p) ==
    /\ pc[p] = "gateway"
    /\ ~gateway[p].ok
    /\ res' = [res EXCEPT ![p] = ServerError]
    /\ pc' = [pc EXCEPT ![p] = "done"]
    /\ last' = [op |-> "stk-push", p |-> p]
    /\ UNCHANGED <<paymentStore, req, tokenCalls, gatewayCalls, gateway,
                   reconciled>>

(***************************************************************************)
(* POST /api/mpesa/callback                                                *)
(***************************************************************************)
\* UnexpectedAck, had the unparseable payload been refused
UnexpectedAck_Refused == Response(400, [ResultCode |-> 1, ResultDesc |-> "Rejected"])

\* the acknowledgment of a payload without the nested object
UnexpectedAck == Response(200, [ResultCode |-> 0, ResultDesc |-> "Accepted"])

\* the acknowledgment of a reconciled notification
Accepted == Response(200, [ResultCode |-> 0, ResultDesc |-> "Accepted"])

\* a handler that throws synchronously: Express answers 500 itself
ExpressError == Response(500, [html |-> "Internal Server Error"])

\* req.body?.Body?.stkCallback
StkCallbackOf(reqBody) == OptProp(OptProp(reqBody, "Body"), "stkCallback")

\* CallbackMetadata?.Item
ItemOf(callbackMetadata) == OptProp(callbackMetadata, "Item")

\* CallbackMetadata?.Item?.forEach(...) throws a TypeError when Item is
\* neither nullish nor an array, and when an item is null or undefined
ForEachThrows(item) ==
    /\ ~Nullish(item)
    /\ \/ item.t # "array"
       \/ \E i \in 1..Len(item.items) : Nullish(item.items[i])

RECURSIVE ForEach(_, _)
\* meta after `items.forEach(item => { meta[item.Name] = item.Value; })`
ForEach(items, meta) ==
    IF items = <<>> THEN meta
    ELSE ForEach(Tail(items),
                 Put(meta, ToKey(Prop(Head(items), "Name")),
                     Prop(Head(items), "Value")))

MetaOf(item) == IF Nullish(item) THEN EmptyObject ELSE ForEach(item.items, EmptyObject)

\* SuccessRecord, had the receipt been read under another name
SuccessRecord_WrongName(meta) ==
    [t |-> "object",
     status |-> Str("success"),
     amount |-> Get(meta, "Amount"),
     receipt |-> Get(meta, "ReceiptNumber"),
     phone |-> Get(meta, "PhoneNumber"),
     date |-> Get(meta, "TransactionDate")]

\* SuccessRecord, had it carried a message as the failure records do
SuccessRecord_Message(meta) ==
    [t |-> "object",
     status |-> Str("success"),
     message |-> Str("The service request is processed successfully."),
     amount |-> Get(meta, "Amount"),
     receipt |-> Get(meta, "MpesaReceiptNumber"),
     phone |-> Get(meta, "PhoneNumber"),
     date |-> Get(meta, "TransactionDate")]

SuccessRecord(meta) ==
    [t |-> "object",
     status |-> Str("success"),
     amount |-> Get(meta, "Amount"),
     receipt |-> Get(meta, "MpesaReceiptNumber"),
     phone |-> Get(meta, "PhoneNumber"),
     date |-> Get(meta, "TransactionDate")]

\* FailureRecord, had the description been dropped
FailureRecord_NoMessage(ResultCode, ResultDesc) ==
    [t |-> "object",
     status |-> IF ResultCode = JsInt(1032) THEN Str("cancelled") ELSE Str("failed"),
     message |-> Undef]

\* FailureRecord, had the cancel code been compared as a string
FailureRecord_StringCode(ResultCode, ResultDesc) ==
    [t |-> "object",
     status |-> IF ResultCode = Str("1032") THEN Str("cancelled") ELSE Str("failed"),
     message |-> ResultDesc]

FailureRecord(ResultCode, ResultDesc) ==
    [t |-> "object",
     status |-> IF ResultCode = JsInt(1032) THEN Str("cancelled") ELSE Str("failed"),
     message |-> ResultDesc]

\* Callback, had it updated only the records an initiation had created
Callback_KnownOnly(reqBody) ==
    LET body == StkCallbackOf(reqBody)
        CheckoutRequestID == Prop(body, "CheckoutRequestID")
        ResultCode == Prop(body, "ResultCode")
        ResultDesc == Prop(body, "ResultDesc")
        item == ItemOf(Prop(body, "CallbackMetadata"))
        key == ToKey(CheckoutRequestID)
    IN /\ IF ~Truthy(body)
          THEN /\ last' = [op |-> "callback", req |-> reqBody,
                           res |-> UnexpectedAck, replaced |-> Undef]
               /\ UNCHANGED <<paymentStore, reconciled>>
          ELSE IF key \notin DOMAIN paymentStore
          THEN /\ last' = [op |-> "callback", req |-> reqBody,
                           res |-> Accepted, replaced |-> Undef]
               /\ UNCHANGED <<paymentStore, reconciled>>
          ELSE IF ResultCode = JsInt(0)
          THEN IF ForEachThrows(item)
               THEN /\ last' = [op |-> "callback", req |-> reqBody,
                                res |-> ExpressError, replaced |-> Undef]
                    /\ UNCHANGED <<paymentStore, reconciled>>
               ELSE /\ paymentStore' = Put(paymentStore, key,
                                           SuccessRecord(MetaOf(item)))
                    /\ reconciled' = reconciled \cup {key}
                    /\ last' = [op |-> "callback", req |-> reqBody,
                                res |-> Accepted,
                                replaced |-> Get(paymentStore, key)]
          ELSE /\ paymentStore' = Put(paymentStore, key,
                                      FailureRecord(ResultCode, ResultDesc))
               /\ reconciled' = reconciled \cup {key}
               /\ last' = [op |-> "callback", req |-> reqBody, res |-> Accepted,
                           replaced |-> Get(paymentStore, key)]
       /\ UNCHANGED <<pc, req, res, tokenCalls, gatewayCalls, gateway>>

Callback(reqBody) ==
    LET body == StkCallbackOf(reqBody)
        CheckoutRequestID == Prop(body, "CheckoutRequestID")
        ResultCode == Prop(body, "ResultCode")
        ResultDesc == Prop(body, "ResultDesc")
        item == ItemOf(Prop(body, "CallbackMetadata"))
        key == ToKey(CheckoutRequestID)
    IN /\ IF ~Truthy(body)
          THEN /\ last' = [op |-> "callback", req |-> reqBody,
                           res |-> UnexpectedAck, replaced |-> Undef]
               /\ UNCHANGED <<paymentStore, reconciled>>
          ELSE IF ResultCode = JsInt(0)
          THEN IF ForEachThrows(item)
               THEN /\ last' = [op |-> "callback", req |-> reqBody,
                                res |-> ExpressError, replaced |-> Undef]
                    /\ UNCHANGED <<paymentStore, reconciled>>
               ELSE /\ paymentStore' = Put(paymentStore, key,
                                           SuccessRecord(MetaOf(item)))
                    /\ reconciled' = reconciled \cup {key}
                    /\ last' = [op |-> "callback", req |-> reqBody,
                                res |-> Accepted,
                                replaced |-> Get(paymentStore, key)]
          ELSE /\ paymentStore' = Put(paymentStore, key,
                                      FailureRecord(ResultCode, ResultDesc))
               /\ reconciled' = reconciled \cup {key}
               /\ last' = [op |-> "callback", req |-> reqBody, res |-> Accepted,
                           replaced |-> Get(paymentStore, key)]
       /\ UNCHANGED <<pc, req, res, tokenCalls, gatewayCalls, gateway>>

(***************************************************************************)
(* GET /api/stk-status                                                     *)
(***************************************************************************)
\* the record synthesized for an id the store does not hold
DefaultRecord == [t |-> "object", status |-> Str("pending")]

StkStatusResponse(store, checkoutId) ==
    IF ~Truthy(checkoutId)
    THEN Response(400, [error |-> "checkoutId required"])
    ELSE LET found == Get(store, ToKey(checkoutId))
             record == IF Truthy(found) THEN found ELSE DefaultRecord
         IN Response(200, Json(record))

\* a poll that stores the record it synthesizes
StkStatus_Inserts(checkoutId) ==
    /\ last' = [op |-> "stk-status", req |-> checkoutId,
                res |-> StkStatusResponse(paymentStore, checkoutId)]
    /\ paymentStore' =
          IF Truthy(checkoutId) /\ ~Truthy(Get(paymentStore, ToKey(checkoutId)))
          THEN Put(paymentStore, ToKey(checkoutId), DefaultRecord)
          ELSE paymentStore
    /\ UNCHANGED <<pc, req, res, tokenCalls, gatewayCalls, gateway, reconciled>>

StkStatus(checkoutId) ==
    /\ last' = [op |-> "stk-status", req |-> checkoutId,
                res |-> StkStatusResponse(paymentStore, checkoutId)]
    /\ UNCHANGED <<paymentStore, pc, req, res, tokenCalls, gatewayCalls,
                   gateway, reconciled>>

(***************************************************************************)
(* Inputs.                                                                 *)
(***************************************************************************)
MetaItem(name, value) == [t |-> "object", Name |-> Str(name), Value |-> value]

\* a complete success payload, as the gateway sends it
FullItems == <<MetaItem("Amount", JsInt(11)),
               MetaItem("MpesaReceiptNumber", Str("ABC123")),
               MetaItem("TransactionDate", JsInt(20261104)),
               MetaItem("PhoneNumber", JsInt(254700000))>>

\* the items enumerated: a null, two amounts, a receipt, and an item without
\* Value, as the gateway sends for Balance
Items == {Null,
          MetaItem("Amount", JsInt(11)),
          MetaItem("Amount", JsInt(12)),
          MetaItem("MpesaReceiptNumber", Str("ABC123")),
          [t |-> "object", Name |-> Str("Balance")]}

RECURSIVE SeqsUpTo(_, _)
SeqsUpTo(S, n) ==
    IF n = 0 THEN {<<>>}
    ELSE LET shorter == SeqsUpTo(S, n - 1)
         IN shorter \cup {Append(q, x) : q \in shorter, x \in S}

Metadata(item) == [t |-> "object", Item |-> item]

SuccessDesc == Str("The service request is processed successfully.")

CancelDesc == Str("Request cancelled by user")

Notification(id, code, desc, metadata) ==
    [t |-> "object",
     Body |-> [t |-> "object",
               stkCallback |-> [t |-> "object", CheckoutRequestID |-> id,
                                ResultCode |-> code, ResultDesc |-> desc,
                                CallbackMetadata |-> metadata]]]

\* the notifications of the whole-system specification: per id a success with
\* and without metadata, one whose item list holds a null, a cancellation and
\* a failure; and a body without the nested object
CallbackBodies ==
    {Undef}
    \cup {Notification(Str(i), JsInt(0), SuccessDesc, m) :
            i \in Ids,
            m \in {Undef, Metadata(Arr(FullItems)), Metadata(Arr(<<Null>>))}}
    \cup {Notification(Str(i), JsInt(1032), CancelDesc, Undef) : i \in Ids}
    \cup {Notification(Str(i), JsInt(1), Str("Insufficient balance"), Undef) :
            i \in Ids}

\* the ids the notifications of the Reconciler's specification carry
ReconcilerIds == {"ws_1"}

\* the notifications of the Reconciler's specification: every shape
AllMetadatas ==
    {Undef, Null, [t |-> "object"], Metadata(Str("none"))}
    \cup {Metadata(Arr(q)) : q \in SeqsUpTo(Items, MaxItems) \cup {FullItems}}

AllCallbackBodies ==
    {Undef, [t |-> "object"], [t |-> "object", Body |-> [t |-> "object"]],
     [t |-> "object", Body |-> [t |-> "object", stkCallback |-> Null]],
     [t |-> "object", Body |-> [t |-> "object", stkCallback |-> Str("ok")]]}
    \cup {Notification(Str(i), JsInt(0), SuccessDesc, m) :
            i \in ReconcilerIds, m \in AllMetadatas}
    \cup {Notification(Str(i), c, d, Undef) :
            i \in ReconcilerIds, c \in {JsInt(1032), JsInt(1), Str("0"), Undef},
            d \in {Undef, CancelDesc}}

\* the checkoutId query parameters: absent, empty, the gateway's ids, and a
\* name that no record is stored under
CheckoutIds == {Undef, Str(""), Str("constructor")} \cup {Str(i) : i \in Ids}

(***************************************************************************)
(* Specifications.                                                         *)
(***************************************************************************)
\* the whole system: initiations, notifications and polls interleaved
Next ==
    \/ \E p \in Procs, body \in StkPushBodies : StkPushStart(p, body)
    \/ \E p \in Procs : TokenOk(p)
    \/ \E p \in Procs : TokenFail(p)
    \/ \E p \in Procs : GatewayOk(p)
    \/ \E p \in Procs : GatewayFail(p)
    \/ \E reqBody \in CallbackBodies : Callback(reqBody)
    \/ \E checkoutId \in CheckoutIds : StkStatus(checkoutId)

Spec == Init /\ [][Next]_vars

\* the Reconciler alone, given every shape of notification, on a store in
\* which earlier initiations have left any of the ids pending
ReconcilerInit ==
    /\ \E S \in SUBSET ReconcilerIds : paymentStore = [k \in S |-> PendingRecord]
    /\ pc = [p \in Procs |-> "idle"]
    /\ req = [p \in Procs |-> Undef]
    /\ res = [p \in Procs |-> NoResponse]
    /\ tokenCalls = [p \in Procs |-> 0]
    /\ gatewayCalls = [p \in Procs |-> <<>>]
    /\ gateway = [p \in Procs |-> NoAnswer]
    /\ reconciled = {}
    /\ last = [op |-> "listen"]

ReconcilerNext ==
    \/ \E reqBody \in AllCallbackBodies : Callback(reqBody)
    \/ \E checkoutId \in CheckoutIds : StkStatus(checkoutId)

ReconcilerSpec == ReconcilerInit /\ [][ReconcilerNext]_vars

\* one initiation on its own, given every amount
AmountNext ==
    \/ \E body \in AllStkPushBodies : StkPushStart(1, body)
    \/ TokenOk(1)
    \/ TokenFail(1)
    \/ GatewayOk(1)
    \/ GatewayFail(1)

AmountSpec == Init /\ [][AmountNext]_vars

\* every call to the token provider and to the gateway eventually resolves
\* or rejects, and the event loop then runs the continuation awaiting it
CallsReturn ==
    \A p \in Procs :
        /\ WF_vars(TokenOk(p) \/ TokenFail(p))
        /\ WF_vars(GatewayOk(p) \/ GatewayFail(p))

LiveSpec == Init /\ [][Next]_vars /\ CallsReturn

(***************************************************************************)
(* Properties.                                                             *)
(***************************************************************************)
Terminal == {Str("success"), Str("failed"), Str("cancelled")}

IsTerminal(record) == record.status \in Terminal

\* the last segment was a status poll for a non-empty id
PolledId(id) ==
    /\ last.op = "stk-status"
    /\ last.req = Str(id)

\* some initiation has responded with an acknowledgment carrying this id
Acknowledged(id) ==
    \E p \in Procs :
        /\ pc[p] = "done"
        /\ res[p].code = 200
        /\ Prop(res[p].body, "CheckoutRequestID") = Str(id)

\* C1: a status poll for an id, made after the initiation that was
\* acknowledged with that id has responded and while no notification for the
\* id has been reconciled, returns a record with status 'pending'.
C1_PendingUntilReconciled ==
    \A id \in Ids :
        (PolledId(id) /\ Acknowledged(id) /\ id \notin reconciled)
            => /\ last.res.code = 200
               /\ last.res.body.status = Str("pending")

C1_Witness ==
    \E id \in Ids :
        /\ PolledId(id) /\ Acknowledged(id) /\ id \notin reconciled
        /\ id \in DOMAIN paymentStore
        /\ last.res.body.status = Str("pending")

\* C2: once the record of an id is terminal (success, failed or cancelled),
\* no later notification changes it: a callback step leaves every terminal
\* record as it was.
C2_NoTerminalToTerminal ==
    [][last'.op = "callback"
         => \A k \in DOMAIN paymentStore :
               IsTerminal(paymentStore[k]) => paymentStore'[k] = paymentStore[k]]_vars

\* C3: once a notification for an id has been reconciled, every status poll
\* for that id returns a terminal status, however the Initiator's
\* continuation interleaves with the Reconciler.
C3_PollTerminalAfterReconciled ==
    \A id \in Ids :
        (PolledId(id) /\ id \in reconciled) => last.res.body.status \in Terminal

\* the nested result object of a callback segment l, and its parts
StkOf(l) == StkCallbackOf(l.req)

CodeOf(l) == Prop(StkOf(l), "ResultCode")

DescOf(l) == Prop(StkOf(l), "ResultDesc")

KeyOf(l) == ToKey(Prop(StkOf(l), "CheckoutRequestID"))

ItemListOf(l) == OptProp(Prop(StkOf(l), "CallbackMetadata"), "Item")

\* segment l handled a notification that contains the nested result object
Notified(l) == l.op = "callback" /\ Truthy(StkOf(l))

\* the Value of the last item of the list that is named `name`
LastValue(item, name) ==
    IF Nullish(item) THEN Undef
    ELSE LET named == {i \in 1..Len(item.items) :
                         Prop(item.items[i], "Name") = Str(name)}
         IN IF named = {} THEN Undef
            ELSE Prop(item.items[CHOOSE i \in named : \A j \in named : j <= i],
                      "Value")

\* the item list is absent, or it is a list of objects
ListOfObjects(item) ==
    \/ Nullish(item)
    \/ /\ item.t = "array"
       /\ \A i \in 1..Len(item.items) : item.items[i].t = "object"

C5_OtherCodeFailed ==
    (Notified(last) /\ CodeOf(last) \notin {JsInt(0), JsInt(1032)})
        => /\ KeyOf(last) \in DOMAIN paymentStore
           /\ paymentStore[KeyOf(last)] =
                [t |-> "object", status |-> Str("failed"), message |-> DescOf(last)]

C5_Witness ==
    /\ Notified(last) /\ CodeOf(last) = JsInt(1)
    /\ DescOf(last) # Undef
    /\ paymentStore[KeyOf(last)].status = Str("failed")
    /\ paymentStore[KeyOf(last)].message = DescOf(last)

\* C6: after a notification with result code 1032, the record under its id
\* has status 'cancelled' and the result description as message, whatever
\* record the id had before.
C6_CancelCodeCancelled ==
    [][(Notified(last') /\ CodeOf(last') = JsInt(1032))
         => /\ KeyOf(last') \in DOMAIN paymentStore'
            /\ paymentStore'[KeyOf(last')] =
                 [t |-> "object", status |-> Str("cancelled"),
                  message |-> DescOf(last')]]_vars

C6_Witness ==
    /\ Notified(last) /\ CodeOf(last) = JsInt(1032)
    /\ DescOf(last) # Undef
    /\ paymentStore[KeyOf(last)].status = Str("cancelled")
    /\ \E k \in DOMAIN paymentStore : k # KeyOf(last)

\* C7: the callback handler answers every notification body, of any shape,
\* with the fixed acknowledgment {ResultCode: 0, ResultDesc: 'Accepted'}.
C7_AlwaysAccepted ==
    last.op = "callback"
        => last.res = [code |-> 200,
                       body |-> [ResultCode |-> 0, ResultDesc |-> "Accepted"]]

\* C8: a notification body without the nested result object is answered
\* with the 'Accepted' acknowledgment and leaves the store as it was.
C8_MalformedLeavesStore ==
    [][(last'.op = "callback" /\ Nullish(StkOf(last')))
         => /\ last'.res = [code |-> 200,
                            body |-> [ResultCode |-> 0, ResultDesc |-> "Accepted"]]
            /\ paymentStore' = paymentStore]_vars

C8_Witness ==
    /\ last.op = "callback" /\ Nullish(StkOf(last))
    /\ last.res.code = 200
    /\ \E k \in DOMAIN paymentStore : IsTerminal(paymentStore[k])

\* the segment of initiation p that runs in this step ends with the token
\* call or the gateway submission having failed
FailedStep(p) ==
    /\ pc'[p] = "done"
    /\ \/ pc[p] = "token"
       \/ pc[p] = "gateway" /\ ~gateway[p].ok

\* C9: when the token call or the gateway submission of an initiation fails,
\* the handler answers 500 and no segment of that initiation has written to
\* the store.
C9_FailureNotRecorded ==
    [][\A p \in Procs :
         (last'.op = "stk-push" /\ last'.p = p)
             => /\ FailedStep(p) => res'[p].code = 500
                /\ res'[p].code # 200 => paymentStore' = paymentStore]_vars

C9_Witness ==
    \E p, q \in Procs :
        /\ res[p].code = 500 /\ tokenCalls[p] = 1 /\ gatewayCalls[p] = <<>>
        /\ res[q].code = 500 /\ Len(gatewayCalls[q]) = 1
        /\ paymentStore = EmptyObject

\* C10: an initiation whose phone or amount is missing is answered 400,
\* calls neither the token provider nor the gateway, and leaves the store
\* as it was.
C10_MissingInputRejected ==
    [][/\ \A p \in Procs :
         (/\ pc[p] = "idle" /\ pc'[p] # "idle"
          /\ \/ Prop(req'[p], "phone") = Undef
             \/ Prop(req'[p], "amount") = Undef)
             => /\ pc'[p] = "done"
                /\ res'[p].code = 400
                /\ tokenCalls'[p] = 0
                /\ gatewayCalls'[p] = <<>>
                /\ paymentStore' = paymentStore
       /\ \A p \in Procs :
            res'[p].code = 400 => tokenCalls'[p] = 0 /\ gatewayCalls'[p] = <<>>]_vars

C10_Witness ==
    \E p \in Procs :
        /\ pc[p] = "done" /\ res[p].code = 400
        /\ Prop(req[p], "phone") # Undef /\ Prop(req[p], "amount") = Undef
        /\ tokenCalls[p] = 0 /\ gatewayCalls[p] = <<>>

----------------------------------------------------------------------------
\* segment l reconciled a notification: it contains the nested result object
\* and the handler ran to its end
Reconciles(l) == Notified(l) /\ l.res.code = 200

\* C11: two status polls for the same id between which no notification is
\* reconciled return identical records, whatever else runs in between. A poll
\* answers from the store alone, so this says that every segment other than a
\* reconciled notification leaves the answer a poll would get unchanged, for
\* every id.
C11_PollsAgreeBetweenNotifications ==
    [][~Reconciles(last')
          => \A checkoutId \in CheckoutIds :
                StkStatusResponse(paymentStore', checkoutId)
                    = StkStatusResponse(paymentStore, checkoutId)]_vars

\* C12: a status poll for a non-empty id that the store holds no record under
\* answers 200 with the synthesized record {status: 'pending'}, and only a
\* poll without an id answers 400.
C12_UnknownIdPending ==
    last.op = "stk-status"
        => /\ (Truthy(last.req) /\ ToKey(last.req) \notin DOMAIN paymentStore)
                => last.res = Response(200, DefaultRecord)
           /\ last.res.code = 400 => ~Truthy(last.req)

\* C13: a status poll never changes the payment store, whether its id is
\* known, unknown or missing; in particular the record synthesized for an
\* unknown id is not stored.
C13_PollLeavesStore ==
    [][last'.op = "stk-status" => paymentStore' = paymentStore]_vars

\* a poll for an id without a record was answered with the synthesized
\* record while the store holds other records, and the id still has none
C13_Witness ==
    /\ last.op = "stk-status"
    /\ Truthy(last.req)
    /\ ToKey(last.req) \notin DOMAIN paymentStore
    /\ last.res = Response(200, DefaultRecord)
    /\ paymentStore # EmptyObject

\* the notification of segment l is well formed: the nested result object
\* names a string id and a numeric result code, and its item list, if any, is
\* a list of objects
WellFormed(l) ==
    /\ Notified(l)
    /\ Prop(StkOf(l), "CheckoutRequestID").t = "string"
    /\ CodeOf(l).t = "number"
    /\ ListOfObjects(ItemListOf(l))

\* the terminal status a result code determines
StatusFor(code) ==
    IF code = JsInt(0) THEN Str("success")
    ELSE IF code = JsInt(1032) THEN Str("cancelled")
    ELSE Str("failed")

\* C14: a well-formed notification for an id the store holds no record under
\* creates the record in that one step, directly with the terminal status its
\* result code determines; no state in which the record is pending lies
\* between.
C14_UnknownIdDirectlyTerminal ==
    [][(WellFormed(last') /\ KeyOf(last') \notin DOMAIN paymentStore)
          => /\ KeyOf(last') \in DOMAIN paymentStore'
             /\ paymentStore'[KeyOf(last')].status = StatusFor(CodeOf(last'))]_vars

\* a notification has just created a terminal record under an id that had
\* none, while an initiation is still suspended
C14_Witness ==
    /\ WellFormed(last)
    /\ last.replaced = Undef
    /\ KeyOf(last) \in DOMAIN paymentStore
    /\ IsTerminal(paymentStore[KeyOf(last)])
    /\ \E p \in Procs : pc[p] = "gateway"

\* the record a notification produces when it is the only one ever received:
\* what the handler stores under its id starting from the empty store
RecordAlone(l) ==
    IF CodeOf(l) = JsInt(0)
    THEN SuccessRecord(MetaOf(ItemListOf(l)))
    ELSE FailureRecord(CodeOf(l), DescOf(l))

\* the value is a record an earlier notification stored
EarlierRecord(v) == v.t = "object" /\ "status" \in DOMAIN v /\ IsTerminal(v)

\* C15: when a notification is reconciled for an id under which an earlier
\* notification's record is stored, the stored record becomes exactly the
\* record the later notification alone would produce: last write wins and no
\* field of the earlier record survives.
C15_LastWriteWins ==
    (Reconciles(last) /\ EarlierRecord(last.replaced))
        => /\ KeyOf(last) \in DOMAIN paymentStore
           /\ paymentStore[KeyOf(last)] = RecordAlone(last)

\* a failure notification has replaced a success record that carried an
\* amount, and the stored record has no amount
C15_Witness ==
    /\ Reconciles(last)
    /\ EarlierRecord(last.replaced)
    /\ last.replaced.status = Str("success")
    /\ last.replaced.amount # Undef
    /\ paymentStore[KeyOf(last)].status = Str("cancelled")
    /\ "amount" \notin DOMAIN paymentStore[KeyOf(last)]

\* the slots other than `key` hold in `new` what they hold in `old`
OnlySlot(old, new, key) ==
    /\ DOMAIN new \ {key} = DOMAIN old \ {key}
    /\ \A k \in DOMAIN old \ {key} : new[k] = old[k]

\* the id a completing initiation was acknowledged with, as a property key
AckKey(p) == ToKey(Prop(res'[p].body, "CheckoutRequestID"))

\* C16: every segment changes at most one slot of the payment store: an
\* initiation that completes successfully only the slot of the id the gateway
\* returned, a notification only the slot of its own CheckoutRequestID, and
\* any other segment none; the records under all other ids stay as they are,
\* however initiations and notifications interleave.
C16_AtMostOneSlot ==
    [][IF last'.op = "callback"
       THEN OnlySlot(paymentStore, paymentStore', KeyOf(last'))
       ELSE IF last'.op = "stk-push" /\ res'[last'.p].code = 200
       THEN OnlySlot(paymentStore, paymentStore', AckKey(last'.p))
       ELSE paymentStore' = paymentStore]_vars

\* a notification has replaced the record under its id while the other id
\* keeps a terminal record, and an initiation has completed since another
\* was acknowledged
C16_Witness ==
    /\ Reconciles(last)
    /\ EarlierRecord(last.replaced)
    /\ \E k \in DOMAIN paymentStore :
          k # KeyOf(last) /\ IsTerminal(paymentStore[k])
    /\ \E p \in Procs : pc[p] = "done" /\ res[p].code = 200

\* the step is initiation p resuming with the gateway's acknowledgment
Acked(p) == pc[p] = "gateway" /\ gateway[p].ok /\ pc'[p] = "done"

\* C17: the Initiator writes to the store exactly when the gateway's
\* acknowledgment contains a correlation id, and then stores exactly
\* {status: 'pending'} under that id; with an acknowledgment without id, and
\* in every other Initiator segment, the store is unchanged. In both cases
\* the caller gets the acknowledgment body as the gateway sent it.
C17_PendingExactlyOnId ==
    [][last'.op = "stk-push"
          => IF Acked(last'.p)
             THEN LET data == gateway[last'.p].data
                  IN /\ res'[last'.p] = Response(200, data)
                     /\ IF "CheckoutRequestID" \in DOMAIN data
                        THEN paymentStore' =
                               [k \in DOMAIN paymentStore
                                        \cup {data.CheckoutRequestID.s} |->
                                   IF k = data.CheckoutRequestID.s
                                   THEN [t |-> "object", status |-> Str("pending")]
                                   ELSE paymentStore[k]]
                        ELSE paymentStore' = paymentStore
             ELSE paymentStore' = paymentStore]_vars

\* one initiation was acknowledged with an id and its pending record is
\* stored, another was acknowledged without an id and nothing else is stored
C17_Witness ==
    \E p, q \in Procs :
        /\ pc[p] = "done" /\ res[p].code = 200
        /\ "CheckoutRequestID" \in DOMAIN res[p].body
        /\ pc[q] = "done" /\ res[q].code = 200
        /\ "CheckoutRequestID" \notin DOMAIN res[q].body
        /\ DOMAIN paymentStore = {res[p].body.CheckoutRequestID.s}
        /\ paymentStore[res[p].body.CheckoutRequestID.s] = PendingRecord

\* the fields only a success record carries
SuccessFields == {"amount", "receipt", "phone", "date"}

\* C18: in every reachable state every record of the payment store has a
\* status among pending, success, failed and cancelled; the fields amount,
\* receipt, phone and date are present only on success records, the field
\* message only on failed and cancelled records, and a pending record has
\* neither.
C18_RecordShape ==
    \A k \in DOMAIN paymentStore :
        LET record == paymentStore[k]
        IN /\ record.t = "object"
           /\ "status" \in DOMAIN record
           /\ record.status \in {Str("pending")} \cup Terminal
           /\ (DOMAIN record \cap SuccessFields # {})
                 => record.status = Str("success")
           /\ "message" \in DOMAIN record
                 => record.status \in {Str("failed"), Str("cancelled")}

\* the store holds a pending record and a success record with its fields at
\* once
C18_Witness ==
    \E j, k \in DOMAIN paymentStore :
        /\ paymentStore[j] = PendingRecord
        /\ paymentStore[k].status = Str("success")
        /\ SuccessFields \subseteq DOMAIN paymentStore[k]
        /\ paymentStore[k].amount = JsInt(11)

\* C19: for every initiation that passes validation and is submitted, the
\* Amount of the payload is an integer, is at least the requested amount, and
\* is less than one above it: the smallest integer not below the request
\* (10.4 gives 11, a whole amount is submitted as it is). Amounts are
\* compared in tenths.
C19_AmountCeiling ==
    \A p \in Procs :
        \A i \in 1..Len(gatewayCalls[p]) :
            LET requested == req[p].amount
                submitted == gatewayCalls[p][i].Amount
            IN requested.t = "number"
                 => /\ submitted.t = "number"
                    /\ submitted.s # "NaN"
                    /\ submitted.f = 0
                    /\ 10 * submitted.n >= 10 * requested.n + requested.f
                    /\ 10 * (submitted.n - 1) < 10 * requested.n + requested.f

\* a request for 10.4 was acknowledged after 11 was submitted
C19_Witness ==
    \E p \in Procs :
        /\ pc[p] = "done" /\ res[p].code = 200
        /\ req[p].amount = Num(10, 4)
        /\ Len(gatewayCalls[p]) = 1
        /\ gatewayCalls[p][1].Amount = JsInt(11)

\* initiation p is suspended on its call to the token provider or the gateway
Suspended(p) == pc[p] \in {"token", "gateway"}

\* initiation p has been answered with 400, 500 or the acknowledgment
Answered(p) == pc[p] = "done" /\ res[p].code \in {400, 500, 200}

\* while p is suspended nothing keeps the other segments from running: the
\* poll, the callback, and whatever step another initiation is at
OthersCanRun(p) ==
    /\ ENABLED (\E checkoutId \in CheckoutIds : StkStatus(checkoutId))
    /\ ENABLED (\E reqBody \in CallbackBodies : Callback(reqBody))
    /\ \A q \in Procs \ {p} :
          /\ pc[q] = "idle"
                => ENABLED (\E body \in StkPushBodies : StkPushStart(q, body))
          /\ pc[q] = "token" => ENABLED (TokenOk(q) \/ TokenFail(q))
          /\ pc[q] = "gateway" => ENABLED (GatewayOk(q) \/ GatewayFail(q))

\* C20: if every call to the token provider and the gateway eventually
\* returns or fails, every initiation request is eventually answered, with
\* 400, 500 or the forwarded acknowledgment; once answered its response never
\* changes (exactly one response); and while an initiation is suspended on a
\* call, polls, notifications and the other initiations can still run.
C20_EveryInitiationAnswered ==
    /\ \A p \in Procs : (pc[p] # "idle") ~> Answered(p)
    /\ [][\A p \in Procs : res[p] # NoResponse => res'[p] = res[p]]_vars
    /\ [](\A p \in Procs : Suspended(p) => OthersCanRun(p))

\* an initiation has just been acknowledged while another one is still
\* suspended on its gateway call
C20_Witness ==
    \E p, q \in Procs :
        /\ p # q
        /\ pc[p] = "gateway"
        /\ last = [op |-> "stk-push", p |-> q]
        /\ Answered(q) /\ res[q].code = 200
====
